---- MODULE Spec2Model ----
(***************************************************************************)
(* TechMCP: session-authenticated portal scrapers (course list,           *)
(* attendance, CA marks, timetable), their 30-minute caches and the tool  *)
(* layer that owns them through the SessionManager of server1.py.         *)
(*                                                                         *)
(* A tool call is one atomic step: the spec (section 5) has one request   *)
(* at a time per scraper and the handlers never suspend between their     *)
(* scraper calls.  The clock is read in whole minutes and does not move   *)
(* inside a call.  The portal is the environment: every page it serves is *)
(* a nondeterministic input.                                               *)
(*                                                                         *)
(* Python's Optional values are sequences of length 0 (None) or 1.        *)
(* session_cookies is TRUE once login() has bound it to the client's      *)
(* cookie jar; the jar is taken to be non-empty from then on (the portal  *)
(* authenticates by cookie).                                               *)
(***************************************************************************)
EXTENDS Integers, Sequences, FiniteSets, TLC

\* ------------------------------------------------------------------ bounds
MaxClock == 31

\* most indicator phrases in one login response body
MaxPhrases == 3

\* most hours of one attendance row
MaxHours == 40

\* most entries of one timetable in the next-class lookup
MaxEntries == 2

\* most cells of one timetable row
MaxCells == 3

\* most cards of one course page
MaxCards == 3

\* most rows of one attendance table
MaxRows == 3

\* most tables of one marks page
MaxTables == 2

\* --------------------------------------------------------------- constants
CacheMinutes == 30

Scrapers == {"marks", "attendance", "timetable", "coursecode"}

\* shapes of config.json the constructors and login() tell apart
Configs ==
  {"ok", "missing", "malformed", "no_credentials", "no_server", "no_roll", "no_password"}

\* the clock moves between calls by one of these amounts (minutes)
ClockSteps == {CacheMinutes - 1, CacheMinutes, CacheMinutes + 1}

\* ---------------------------------------------------------- portal answers
success_indicators ==
  {"main menu", "profile", "logout", "welcome", "continuous assessment", "ca marks", "breadcrumb"}

failure_indicators ==
  {"student login", "rollno", "password", "forgot password", "invalid", "incorrect",
   "error", "login failed", "terms & conditions", "staff", "parent"}

\* A login POST response: which of the three URL substrings the landing URL
\* contains, and which indicator phrases the lower-cased body contains.
LoginResponse(studzoneMenu, homeMenu, studzone, body) ==
  [studzoneMenu |-> studzoneMenu, homeMenu |-> homeMenu, studzone |-> studzone, body |-> body]

\* the answers the portal gives in the session model
PortalResponses ==
  { LoginResponse(TRUE, TRUE, TRUE, {"main menu", "logout", "welcome"}),
    LoginResponse(FALSE, FALSE, TRUE, {"student login", "rollno", "password", "invalid"}),
    LoginResponse(FALSE, FALSE, FALSE, {"logout", "welcome"}) }

\* the login entry page: does it carry the __RequestVerificationToken input
LoginPages == [token : BOOLEAN]

\* a domain page: does its text contain "Login", and does it parse to rows
Pages == [marker : BOOLEAN, data : {"empty", "rows"}]

\* the first page of a fetch: when it carries the marker it is the portal's
\* login form, which holds no data
FirstPages == { p \in Pages : p.marker => p.data = "empty" }

\* --------------------------------------------------------------- scrapers
Caching(kind) == kind \in {"coursecode", "timetable"}

\* the classification with the indicator counts consulted before the landing URL
ClassifyIndicators_countsfirst(r) ==
  LET success_count == Cardinality(r.body \cap success_indicators)
      failure_count == Cardinality(r.body \cap failure_indicators)
  IN  IF failure_count > success_count THEN FALSE
      ELSE IF r.studzoneMenu THEN TRUE
      ELSE IF r.studzone /\ ~r.homeMenu THEN FALSE
      ELSE success_count > failure_count

\* AttendanceScraper.login / CAMarksScraper.login / TimeTableScraper.login
ClassifyIndicators(r) ==
  LET success_count == Cardinality(r.body \cap success_indicators)
      failure_count == Cardinality(r.body \cap failure_indicators)
  IN  IF r.studzoneMenu THEN TRUE
      ELSE IF (r.studzone /\ ~r.homeMenu) \/ failure_count > success_count THEN FALSE
      ELSE success_count > failure_count

\* CourseCodeScraper.login
ClassifyCourse(r) == r.homeMenu \/ "logout" \in r.body

Classify(kind, r) ==
  IF kind = "coursecode" THEN ClassifyCourse(r) ELSE ClassifyIndicators(r)

\* _load_config: TRUE when the constructor raises
LoadConfigRaises(kind, cfg) ==
  IF kind = "coursecode"
  THEN cfg \in {"missing", "malformed", "no_credentials"}
  ELSE cfg \in {"missing", "malformed", "no_credentials", "no_server"}

\* __init__: the fresh instance.  The attendance and marks scrapers have no
\* cache attributes; their two cache fields are never written.
NewScraper(kind, cfg) ==
  [credentials |-> cfg, session_cookies |-> FALSE, cache |-> <<>>, last_fetch |-> <<>>]

\* One scraper operation as its caller sees it: op is "construct", "clear" or
\* "fetch"; pre/post the instance before and after (<<>> when there is none);
\* log the HTTP requests in order; pages the domain pages received in order;
\* result what was returned (<<>> on a raise).
Run(kind, op, pre, post, raised, err, log, pages, result) ==
  [kind |-> kind, op |-> op, pre |-> pre, post |-> post, raised |-> raised,
   err |-> err, log |-> log, pages |-> pages, result |-> result]

\* login() that classifies a success but does not keep the cookies
login_forgetful(kind, s, lp, r) ==
  IF ~lp.token
  THEN [raised |-> TRUE, err |-> "csrf", s |-> s, log |-> <<"GET_LOGIN">>]
  ELSE IF s.credentials \in {"no_roll", "no_password"}
  THEN [raised |-> TRUE, err |-> "key", s |-> s, log |-> <<"GET_LOGIN">>]
  ELSE IF Classify(kind, r)
  THEN [raised |-> FALSE, err |-> "none", s |-> s, log |-> <<"GET_LOGIN", "POST_LOGIN">>]
  ELSE [raised |-> TRUE, err |-> "auth", s |-> s, log |-> <<"GET_LOGIN", "POST_LOGIN">>]

\* login(): s is the instance, lp the entry page, r the POST response
login(kind, s, lp, r) ==
  IF ~lp.token
  THEN [raised |-> TRUE, err |-> "csrf", s |-> s, log |-> <<"GET_LOGIN">>]
  ELSE IF s.credentials \in {"no_roll", "no_password"}
  THEN [raised |-> TRUE, err |-> "key", s |-> s, log |-> <<"GET_LOGIN">>]
  ELSE IF Classify(kind, r)
  THEN [raised |-> FALSE, err |-> "none", s |-> [s EXCEPT !.session_cookies = TRUE],
        log |-> <<"GET_LOGIN", "POST_LOGIN">>]
  ELSE [raised |-> TRUE, err |-> "auth", s |-> s, log |-> <<"GET_LOGIN", "POST_LOGIN">>]

\* every outcome of login() the portal can produce
LoginRuns(kind, s) ==
  { login(kind, s, lp, r) : lp \in LoginPages, r \in PortalResponses }

\* is_cache_valid testing the cached list against None only
is_cache_valid_anylist(s, t) ==
  /\ s.cache # <<>>
  /\ s.last_fetch # <<>>
  /\ t - s.last_fetch[1] < CacheMinutes

\* is_cache_valid with the window closed at 30 minutes (<= for <)
is_cache_valid_inclusive(s, t) ==
  /\ s.cache # <<>>
  /\ s.cache[1].data # "empty"
  /\ s.last_fetch # <<>>
  /\ t - s.last_fetch[1] <= CacheMinutes

\* is_cache_valid without the age test
is_cache_valid_forever(s, t) ==
  /\ s.cache # <<>>
  /\ s.cache[1].data # "empty"
  /\ s.last_fetch # <<>>

\* is_cache_valid: an empty list is falsy, like None
is_cache_valid(s, t) ==
  /\ s.cache # <<>>
  /\ s.cache[1].data # "empty"
  /\ s.last_fetch # <<>>
  /\ t - s.last_fetch[1] < CacheMinutes

\* the tail of a fetch that stores the payload but not the time
ParseAndStore_half(kind, s0, s, log, pages, t) ==
  LET payload == [data |-> pages[Len(pages)].data, at |-> t]
      post == IF Caching(kind) THEN [s EXCEPT !.cache = <<payload>>] ELSE s
  IN  Run(kind, "fetch", <<s0>>, <<post>>, FALSE, "none", log, pages, <<payload>>)

\* the tail of a fetch: parse the last page and, in a caching scraper, store
\* the result with the time
ParseAndStore(kind, s0, s, log, pages, t) ==
  LET payload == [data |-> pages[Len(pages)].data, at |-> t]
      post == IF Caching(kind)
              THEN [s EXCEPT !.cache = <<payload>>, !.last_fetch = <<t>>]
              ELSE s
  IN  Run(kind, "fetch", <<s0>>, <<post>>, FALSE, "none", log, pages, <<payload>>)

\* a fetch that parses the first page without looking for the marker
FromPage_noretry(kind, s0, s, log, t) ==
  { ParseAndStore(kind, s0, s, log \o <<"GET_PAGE">>, <<p1>>, t) : p1 \in FirstPages }

\* the fetch from the first page GET on: s0 is the instance at entry, s the
\* instance after the first login (if any), log the requests made so far
FromPage(kind, s0, s, log, t) ==
  UNION {
    IF p1.marker
    THEN UNION {
           IF l2.raised
           THEN { Run(kind, "fetch", <<s0>>, <<l2.s>>, TRUE, l2.err,
                      log \o <<"GET_PAGE">> \o l2.log, <<p1>>, <<>>) }
           ELSE { ParseAndStore(kind, s0, l2.s,
                                log \o <<"GET_PAGE">> \o l2.log \o <<"GET_PAGE">>, <<p1, p2>>, t)
                  : p2 \in Pages }
           : l2 \in LoginRuns(kind, s) }
    ELSE { ParseAndStore(kind, s0, s, log \o <<"GET_PAGE">>, <<p1>>, t) }
    : p1 \in FirstPages }

\* fetch_course_list / get_timetable_data / get_attendance_data / get_ca_marks
\* on instance s at time t: every run the portal can make of it
fetch(kind, s, t) ==
  IF Caching(kind) /\ is_cache_valid(s, t)
  THEN { Run(kind, "fetch", <<s>>, <<s>>, FALSE, "none", <<>>, <<>>, s.cache) }
  ELSE IF s.session_cookies
  THEN FromPage(kind, s, s, <<>>, t)
  ELSE UNION {
         IF l1.raised
         THEN { Run(kind, "fetch", <<s>>, <<l1.s>>, TRUE, l1.err, l1.log, <<>>, <<>>) }
         ELSE FromPage(kind, s, l1.s, l1.log, t)
         : l1 \in LoginRuns(kind, s) }

\* a refresh that forgets to clear the cache
clear_cache_keep(s) == s

\* refresh_course_cache: scraper.cache = None; scraper.last_fetch = None
clear_cache(s) == [s EXCEPT !.cache = <<>>, !.last_fetch = <<>>]

\* ------------------------------------------------------------------ state
VARIABLES
  config,   \* shape of config.json
  now,      \* wall clock, minutes
  slot,     \* SessionManager._marks_scraper, _attendance_scraper, ... by kind
  calls,    \* history: the scraper calls made by the last tool call, in order
  ret,      \* what the last tool call returned
  arg,      \* the input of a function taken on its own (None in the session model)
  val       \* what that function returned for arg (None until it has been called)

vars == <<config, now, slot, calls, ret, arg, val>>

\* the state the SessionManager owns
session == <<config, now, slot, calls, ret>>

NoSlots == [k \in Scrapers |-> <<>>]

\* a tool's return value: success flag, kind of message, and whether the
\* error handler (close_session) ran
Ret(tool, success, message, closed) ==
  [tool |-> tool, success |-> success, message |-> message, closed |-> closed]

\* SessionManager.get_scraper / get_attendance_scraper / get_timetable_scraper /
\* get_coursecode_scraper: the slots afterwards, or a raise from the constructor
get_scraper(sl, kind, cfg) ==
  IF sl[kind] # <<>> THEN [raised |-> FALSE, slot |-> sl]
  ELSE IF LoadConfigRaises(kind, cfg) THEN [raised |-> TRUE, slot |-> sl]
  ELSE [raised |-> FALSE, slot |-> [sl EXCEPT ![kind] = <<NewScraper(kind, cfg)>>]]

\* the constructor raised: there is no instance
ConfigRaise(kind) == Run(kind, "construct", <<>>, <<>>, TRUE, "config", <<>>, <<>>, <<>>)

\* get the scraper of this kind and run its fetch: the slots afterwards and
\* the call as seen by the tool
CallFetch(sl, kind, cfg, t) ==
  LET g == get_scraper(sl, kind, cfg)
  IN  IF g.raised THEN { [slot |-> sl, run |-> ConfigRaise(kind)] }
      ELSE { [slot |-> [g.slot EXCEPT ![kind] = r.post], run |-> r]
             : r \in fetch(kind, g.slot[kind][1], t) }

\* SessionManager.close_session
close_session(sl) == NoSlots

Init ==
  /\ config \in Configs
  /\ now = 0
  /\ slot = NoSlots
  /\ calls = <<>>
  /\ ret = Ret("none", TRUE, "ok", FALSE)
  /\ arg = <<>>
  /\ val = <<>>

\* time passes between tool calls; the history of the last call is dropped,
\* so that calls and ret always belong to the time now
Tick ==
  /\ \E d \in ClockSteps : now + d <= MaxClock /\ now' = now + d
  /\ calls' = <<>>
  /\ ret' = Ret("none", TRUE, "ok", FALSE)
  /\ UNCHANGED <<config, slot, arg, val>>

\* a tool that makes one fetch on one scraper inside try/except:
\* handle_*_error closes the session and returns a failure
SingleFetchTool(tool, kind) ==
  \E o \in CallFetch(slot, kind, config, now) :
    /\ calls' = <<o.run>>
    /\ IF o.run.raised
       THEN slot' = close_session(o.slot) /\ ret' = Ret(tool, FALSE, "error", TRUE)
       ELSE slot' = o.slot /\ ret' = Ret(tool, TRUE, "ok", FALSE)
    /\ UNCHANGED <<config, now, arg, val>>

\* tools/coursecode_tools.py: get_all_courses, search_courses, get_course_details,
\* get_courses_by_department, get_course_statistics
get_all_courses == SingleFetchTool("get_all_courses", "coursecode")

\* tools/marks_tools.py: every marks tool
get_ca1_all_marks == SingleFetchTool("get_ca1_all_marks", "marks")

\* tools/timetable_tools.py: every schedule tool
get_todays_schedule == SingleFetchTool("get_todays_schedule", "timetable")

\* tools/coursecode_tools.py: refresh_course_cache
refresh_course_cache ==
  LET g == get_scraper(slot, "coursecode", config)
  IN  /\ UNCHANGED <<config, now, arg, val>>
      /\ IF g.raised
         THEN /\ calls' = <<ConfigRaise("coursecode")>>
              /\ slot' = close_session(slot)
              /\ ret' = Ret("refresh_course_cache", FALSE, "error", TRUE)
         ELSE LET s0 == g.slot["coursecode"][1]
                  clr == Run("coursecode", "clear", <<s0>>, <<clear_cache(s0)>>,
                             FALSE, "none", <<>>, <<>>, <<>>)
              IN  \E r \in fetch("coursecode", clear_cache(s0), now) :
                    /\ calls' = <<clr, r>>
                    /\ IF r.raised
                       THEN /\ slot' = close_session(slot)
                            /\ ret' = Ret("refresh_course_cache", FALSE, "error", TRUE)
                       ELSE /\ slot' = [g.slot EXCEPT !["coursecode"] = r.post]
                            /\ ret' = Ret("refresh_course_cache", TRUE, "ok", FALSE)

\* tools/attendance_tools.py: get_all_attendance_percentages, get_all_absent_hours,
\* get_all_present_hours, get_all_available_bunks
get_all_attendance_percentages ==
  \E a \in CallFetch(slot, "attendance", config, now) :
    /\ UNCHANGED <<config, now, arg, val>>
    /\ IF a.run.raised
       THEN /\ calls' = <<a.run>>
            /\ slot' = close_session(a.slot)
            /\ ret' = Ret("get_all_attendance_percentages", FALSE, "error", TRUE)
       ELSE \E c \in CallFetch(a.slot, "coursecode", config, now) :
              /\ calls' = <<a.run, c.run>>
              /\ IF c.run.raised
                 THEN /\ slot' = close_session(c.slot)
                      /\ ret' = Ret("get_all_attendance_percentages", FALSE, "error", TRUE)
                 ELSE /\ slot' = c.slot
                      /\ ret' = Ret("get_all_attendance_percentages", TRUE, "ok", FALSE)

\* tools/attendance_tools.py: get_subject_attendance_percentage,
\* get_subject_absent_hours, get_subject_present_hours, get_subject_available_bunks.
\* resolve_course_identifier_to_code and get_course_name_from_code catch every
\* exception of the course scraper and return None.
get_subject_attendance_percentage ==
  LET tool == "get_subject_attendance_percentage"
      g == get_scraper(slot, "attendance", config)
  IN  /\ UNCHANGED <<config, now, arg, val>>
      /\ IF g.raised
         THEN /\ calls' = <<ConfigRaise("attendance")>>
              /\ slot' = close_session(slot)
              /\ ret' = Ret(tool, FALSE, "error", TRUE)
         ELSE \E c \in CallFetch(g.slot, "coursecode", config, now) :
              \E resolved \in BOOLEAN :
                /\ resolved => (~c.run.raised /\ c.run.result[1].data = "rows")
                /\ IF ~resolved
                   THEN /\ calls' = <<c.run>>
                        /\ slot' = c.slot
                        /\ ret' = Ret(tool, FALSE, "not_found", FALSE)
                   ELSE \E a \in fetch("attendance", c.slot["attendance"][1], now) :
                        \E found \in BOOLEAN :
                          /\ found => (~a.raised /\ a.result[1].data = "rows")
                          /\ IF a.raised
                             THEN /\ calls' = <<c.run, a>>
                                  /\ slot' = close_session(c.slot)
                                  /\ ret' = Ret(tool, FALSE, "error", TRUE)
                             ELSE IF ~found
                             THEN /\ calls' = <<c.run, a>>
                                  /\ slot' = [c.slot EXCEPT !["attendance"] = a.post]
                                  /\ ret' = Ret(tool, FALSE, "not_found", FALSE)
                             ELSE \E n \in CallFetch([c.slot EXCEPT !["attendance"] = a.post],
                                                     "coursecode", config, now) :
                                    /\ calls' = <<c.run, a, n.run>>
                                    /\ slot' = n.slot
                                    /\ ret' = Ret(tool, TRUE, "ok", FALSE)

\* tools/timetable_tools.py: get_break_schedule, which only needs the instance
get_break_schedule ==
  LET g == get_scraper(slot, "timetable", config)
  IN  /\ UNCHANGED <<config, now, arg, val>>
      /\ IF g.raised
         THEN /\ calls' = <<ConfigRaise("timetable")>>
              /\ slot' = close_session(slot)
              /\ ret' = Ret("get_break_schedule", FALSE, "error", TRUE)
         ELSE /\ calls' = <<>>
              /\ slot' = g.slot
              /\ ret' = Ret("get_break_schedule", TRUE, "ok", FALSE)

Next ==
  \/ Tick
  \/ get_all_courses
  \/ refresh_course_cache
  \/ get_ca1_all_marks
  \/ get_todays_schedule
  \/ get_all_attendance_percentages
  \/ get_subject_attendance_percentage
  \/ get_break_schedule

Spec == Init /\ [][Next]_vars

\* ------------------------------------------------------- reading the history
Runs == { calls[i] : i \in DOMAIN calls }

Fetches == { r \in Runs : r.op = "fetch" }

CachingFetches == { r \in Fetches : Caching(r.kind) }

Count(log, e) == Cardinality({ i \in DOMAIN log : log[i] = e })

\* the run answered from the cache: no request, instance untouched, the
\* stored payload returned
Hit(r) ==
  /\ ~r.raised
  /\ r.log = <<>>
  /\ r.pages = <<>>
  /\ r.post = r.pre
  /\ r.result = r.pre[1].cache

\* the run went to the network; when it returned, it parsed the last page
\* it received and stored (payload, now)
Refetched(r) ==
  /\ r.log # <<>>
  /\ ~r.raised =>
       /\ r.pages # <<>>
       /\ r.log[Len(r.log)] = "GET_PAGE"
       /\ r.result = <<[data |-> r.pages[Len(r.pages)].data, at |-> now]>>
       /\ r.post[1].cache = r.result
       /\ r.post[1].last_fetch = <<now>>

Age(s) == now - s.last_fetch[1]

\* ---------------------------------------------------------------- claims

C2_NeverStale ==
  \A r \in CachingFetches :
    ~r.raised => now - r.result[1].at < CacheMinutes

\* a timetable fetch that returns a payload parsed 29 minutes earlier
C2_Witness ==
  \E r \in CachingFetches :
    /\ r.kind = "timetable"
    /\ ~r.raised
    /\ now - r.result[1].at = CacheMinutes - 1

\* the cache slot is empty, or holds one parse with the time of that parse
Whole(s) ==
  \/ s.cache = <<>> /\ s.last_fetch = <<>>
  \/ s.cache # <<>> /\ s.last_fetch = <<s.cache[1].at>>

\* C3: a scraper's cache slot holds nothing (payload and timestamp both unset)
\* or one complete parse with the timestamp of that same fetch, after every
\* operation; a fetch that raises leaves payload and timestamp as they were.
C3_CacheWhole ==
  /\ \A k \in Scrapers : slot[k] # <<>> => Whole(slot[k][1])
  /\ \A r \in Runs : r.post # <<>> => Whole(r.post[1])
  /\ \A r \in Fetches :
       r.raised => /\ r.post[1].cache = r.pre[1].cache
                   /\ r.post[1].last_fetch = r.pre[1].last_fetch

\* a fetch raised on an instance that held a cached payload
C3_Witness ==
  \E r \in CachingFetches : r.raised /\ r.pre[1].cache # <<>>

LoginsAfterFirstPage(r) ==
  LET first == CHOOSE i \in DOMAIN r.log : r.log[i] = "GET_PAGE" /\ \A j \in 1..(i-1) : r.log[j] # "GET_PAGE"
  IN  Cardinality({ i \in DOMAIN r.log : i > first /\ r.log[i] = "GET_LOGIN" })

\* C5: within one fetch call, a first page with the login marker is followed
\* by exactly one more login() and, when that login returns, exactly one more
\* page GET whose page is parsed whatever it carries; a first page without
\* the marker is parsed at once; no fetch issues more than two page GETs.
C5_SingleRetry ==
  \A r \in Fetches :
    /\ Len(r.pages) <= 2
    /\ Count(r.log, "GET_PAGE") = Len(r.pages)
    /\ (r.pages # <<>> /\ r.pages[1].marker) =>
         /\ LoginsAfterFirstPage(r) = 1
         /\ ~r.raised => /\ Len(r.pages) = 2
                         /\ r.log[Len(r.log)] = "GET_PAGE"
                         /\ r.result[1].data = r.pages[2].data
    /\ (r.pages # <<>> /\ ~r.pages[1].marker) =>
         /\ Len(r.pages) = 1
         /\ LoginsAfterFirstPage(r) = 0
         /\ ~r.raised
         /\ r.result[1].data = r.pages[1].data

\* a fetch whose second page still carried the marker and was parsed
C5_Witness ==
  \E r \in Fetches :
    /\ Len(r.pages) = 2
    /\ r.pages[2].marker
    /\ r.pages[2].data = "rows"
    /\ ~r.raised

\* C6 as stated: every failing login() (first login or re-login) propagates an
\* exception and leaves the scraper with no session.
C6_AsStated ==
  \A r \in Fetches :
    r.err \in {"csrf", "auth", "key"} =>
      /\ r.raised
      /\ ~r.post[1].session_cookies

\* C7: a fetch on an instance that holds a session requests the page first;
\* login() runs only when there is no session yet or after a page with the
\* marker; no operation unsets a session and every fetch that went to the
\* network and returned leaves one; so without marker pages login() runs once.
C7_SessionReuse ==
  \A r \in Fetches :
    LET s == r.pre[1]
        noMarker == \A i \in DOMAIN r.pages : ~r.pages[i].marker
    IN  /\ (s.session_cookies /\ r.log # <<>>) => r.log[1] = "GET_PAGE"
        /\ (s.session_cookies /\ noMarker) => Count(r.log, "GET_LOGIN") = 0
        /\ (~s.session_cookies /\ noMarker) => Count(r.log, "GET_LOGIN") <= 1
        /\ s.session_cookies => r.post[1].session_cookies
        /\ (~r.raised /\ r.log # <<>>) => r.post[1].session_cookies

\* a fetch on an instance with a session that made one page GET and no login
C7_Witness ==
  \E r \in Fetches :
    /\ r.pre[1].session_cookies
    /\ r.log = <<"GET_PAGE">>
    /\ ~r.raised

\* C8 as stated: whenever a scraper operation raised a token or authentication
\* error during a tool call, the tool ran close_session (all slots empty) and
\* returned a failure for that error.
C8_AsStated ==
  (\E r \in Runs : r.raised /\ r.err \in {"csrf", "auth"}) =>
    /\ ret.closed
    /\ ~ret.success
    /\ ret.message = "error"
    /\ slot = NoSlots

\* config.json shapes with the credentials object, the role identifier or the
\* secret missing
BadCredentials == {"missing", "malformed", "no_credentials", "no_roll", "no_password"}

\* C9 as stated: with absent or malformed credentials no HTTP request is ever
\* issued: every scraper operation fails before any GET or POST.
C9_AsStated ==
  config \in BadCredentials => \A r \in Runs : r.log = <<>>

\* C10 as stated: a login entry page without the token field makes login()
\* raise before any credential POST, and no session is retained.
C10_AsStated ==
  \A r \in Fetches :
    r.err = "csrf" =>
      /\ r.raised
      /\ r.log[Len(r.log)] = "GET_LOGIN"
      /\ ~r.post[1].session_cookies

\* ================================================== login() taken on its own
\* The landing URL contains "/studzone/Home/Menu" only if it contains both
\* "/Home/Menu" and "/studzone"; a body that contains "forgot password"
\* contains "password".
LoginInputs(phrases) ==
  { LoginResponse(u[1], u[2], u[3], b) :
      u \in { w \in BOOLEAN \X BOOLEAN \X BOOLEAN : w[1] => (w[2] /\ w[3]) },
      b \in { c \in SUBSET (success_indicators \cup failure_indicators) :
                /\ Cardinality(c) <= phrases
                /\ "forgot password" \in c => "password" \in c } }

LoginInit ==
  /\ config = "ok" /\ now = 0 /\ slot = NoSlots /\ calls = <<>>
  /\ ret = Ret("none", TRUE, "ok", FALSE)
  /\ arg \in { <<r>> : r \in LoginInputs(MaxPhrases) }
  /\ val = <<>>

\* login() on a fresh instance with complete credentials, the entry page
\* carrying its token, and the POST answered by arg
LoginOnce ==
  /\ val = <<>>
  /\ \E kind \in Scrapers :
       val' = <<[kind |-> kind,
                 out |-> login(kind, NewScraper(kind, "ok"), [token |-> TRUE], arg[1])]>>
  /\ UNCHANGED <<session, arg>>

LoginNext == LoginOnce

LoginSpec == LoginInit /\ [][LoginNext]_vars

success_count(r) == Cardinality(r.body \cap success_indicators)

failure_count(r) == Cardinality(r.body \cap failure_indicators)

\* the authenticated menu path each scraper's login() looks for in the URL
OnMenuPath(kind, r) == IF kind = "coursecode" THEN r.homeMenu ELSE r.studzoneMenu

\* C11: a login response that lands on the authenticated menu path is a
\* success and the session cookies are kept, whatever the indicator counts.
C11_MenuPathSucceeds ==
  val # <<>> =>
    (OnMenuPath(val[1].kind, arg[1]) =>
       ~val[1].out.raised /\ val[1].out.s.session_cookies)

\* a menu-path landing whose body has more failure than success phrases
C11_Witness ==
  /\ val # <<>>
  /\ val[1].kind = "attendance"
  /\ arg[1].studzoneMenu
  /\ failure_count(arg[1]) > success_count(arg[1])
  /\ ~val[1].out.raised

\* C12 (as stated): off the menu path, login succeeds whenever the body has
\* more success phrases than failure phrases.
C12_AsStated ==
  val # <<>> =>
    ((~OnMenuPath(val[1].kind, arg[1]) /\ success_count(arg[1]) > failure_count(arg[1]))
       => ~val[1].out.raised)

\* C13 (as stated): off the menu path, with no more success phrases than
\* failure phrases, login raises the authentication failure.
C13_AsStated ==
  val # <<>> =>
    ((~OnMenuPath(val[1].kind, arg[1]) /\ success_count(arg[1]) <= failure_count(arg[1]))
       => val[1].out.raised /\ val[1].out.err = "auth")

\* ============================================ available bunks taken on its own
\* Percentages are whole numbers and the arithmetic is exact: with the ratio
\* 0.75 every intermediate value of the float computation is exact up to the
\* final quotient, whose rounding cannot cross an integer.

\* _calculate_available_bunks: the default of min_attendance
min_attendance_default == 75

\* the formula without the division by the ratio
calculate_available_bunks_undivided(total_hours, present_hours, absent_hours, min_attendance) ==
  IF total_hours = 0 THEN 0
  ELSE IF 100 * present_hours < min_attendance * total_hours THEN 0
  ELSE LET available_bunks == (100 * present_hours - min_attendance * total_hours) \div 100
       IN  IF available_bunks > 0 THEN available_bunks ELSE 0

\* the formula with the divisor 1 - ratio of the comment on line 314
calculate_available_bunks_complement(total_hours, present_hours, absent_hours, min_attendance) ==
  IF total_hours = 0 THEN 0
  ELSE IF 100 * present_hours < min_attendance * total_hours THEN 0
  ELSE LET available_bunks ==
             (100 * present_hours - min_attendance * total_hours) \div (100 - min_attendance)
       IN  IF available_bunks > 0 THEN available_bunks ELSE 0

\* AttendanceScraper._calculate_available_bunks
calculate_available_bunks(total_hours, present_hours, absent_hours, min_attendance) ==
  IF total_hours = 0 THEN 0
  ELSE IF 100 * present_hours < min_attendance * total_hours THEN 0
  ELSE LET available_bunks == (100 * present_hours - min_attendance * total_hours) \div min_attendance
       IN  IF available_bunks > 0 THEN available_bunks ELSE 0

\* minimum attendance percentages a caller supplies
MinAttendances == {50, 60, min_attendance_default, 90}

\* one attendance row and the caller's minimum
BunksInputs(hours) ==
  UNION { { [total_hours |-> t, present_hours |-> p, absent_hours |-> t - p,
              min_attendance |-> m] : p \in 0..t, m \in MinAttendances }
          : t \in 0..hours }

BunksInit ==
  /\ config = "ok" /\ now = 0 /\ slot = NoSlots /\ calls = <<>>
  /\ ret = Ret("none", TRUE, "ok", FALSE)
  /\ arg \in { <<r>> : r \in BunksInputs(MaxHours) }
  /\ val = <<>>

\* _parse_attendance_table: the available_bunks field of the row's record
parse_attendance_row ==
  /\ val = <<>>
  /\ val' = <<[by |-> "row",
               available_bunks |-> calculate_available_bunks(
                 arg[1].total_hours, arg[1].present_hours, arg[1].absent_hours,
                 min_attendance_default)]>>
  /\ UNCHANGED <<session, arg>>

\* what both tools report for one row: the call passes three positional
\* arguments, (total_hours, present_hours, min_attendance)
ToolBunks(tool) ==
  /\ val = <<>>
  /\ val' = <<[by |-> tool,
               available_bunks |-> calculate_available_bunks(
                 arg[1].total_hours, arg[1].present_hours, arg[1].min_attendance,
                 min_attendance_default)]>>
  /\ UNCHANGED <<session, arg>>

get_subject_available_bunks == ToolBunks("get_subject_available_bunks")

get_all_available_bunks == ToolBunks("get_all_available_bunks")

BunksNext ==
  \/ parse_attendance_row
  \/ get_subject_available_bunks
  \/ get_all_available_bunks

BunksSpec == BunksInit /\ [][BunksNext]_vars

\* floor((present - m/100 * total) / (m/100)) when present >= m/100 * total, else 0
ClosedForm(b, total, present, m) ==
  IF 100 * present < m * total THEN b = 0
  ELSE m * b <= 100 * present - m * total /\ 100 * present - m * total < m * (b + 1)

\* C14: for 0 <= present <= total and the default 75%, available_bunks is
\* never negative, is 0 below 75% and is the floor of the closed form
\* otherwise; total 40, present 32 gives 2.
C14_BunksClosedForm ==
  (val # <<>> /\ val[1].by = "row") =>
    LET b == val[1].available_bunks
        t == arg[1].total_hours
        p == arg[1].present_hours
    IN  /\ b >= 0
        /\ 4 * p < 3 * t => b = 0
        /\ 4 * p >= 3 * t => (3 * b <= 4 * p - 3 * t /\ 4 * p - 3 * t < 3 * (b + 1))
        /\ (t = 40 /\ p = 32) => b = 2

C14_Witness ==
  /\ val # <<>> /\ val[1].by = "row"
  /\ arg[1].total_hours = 40 /\ arg[1].present_hours = 32
  /\ val[1].available_bunks = 2

\* C15 (as stated): the tools report the closed form for the caller's minimum.
C15_AsStated ==
  (val # <<>> /\ val[1].by # "row") =>
    ClosedForm(val[1].available_bunks, arg[1].total_hours, arg[1].present_hours,
               arg[1].min_attendance)

\* ======================================================== the fixed schedule
\* a time of day, in minutes since midnight
T(h, m) == 60 * h + m

\* TimeTableScraper.PERIOD_TIMES: period |-> <<start, end>>
PERIOD_TIMES ==
  [p \in 1..8 |->
     CASE p = 1 -> <<T(8, 30), T(9, 20)>>
       [] p = 2 -> <<T(9, 20), T(10, 10)>>
       [] p = 3 -> <<T(10, 30), T(11, 20)>>
       [] p = 4 -> <<T(11, 20), T(12, 10)>>
       [] p = 5 -> <<T(13, 40), T(14, 30)>>
       [] p = 6 -> <<T(14, 30), T(15, 20)>>
       [] p = 7 -> <<T(15, 30), T(16, 20)>>
       [] p = 8 -> <<T(16, 20), T(17, 10)>>]

\* TimeTableScraper.BREAK_TIMES
BREAK_TIMES ==
  << <<T(10, 10), T(10, 30)>>, <<T(12, 10), T(13, 40)>>, <<T(15, 20), T(15, 30)>> >>

\* TimeTableScraper.DAYS_ORDER
DAYS_ORDER == <<"Monday", "Tuesday", "Wednesday", "Thursday", "Friday", "Saturday">>

\* get_day_from_date: weekday() 0..6 |-> name
days == <<"Monday", "Tuesday", "Wednesday", "Thursday", "Friday", "Saturday", "Sunday">>

\* ================================================ get_next_class on its own
\* a parsed entry, as far as the lookup reads it
Entry(day, period) == [day |-> day, period |-> period, start_time |-> PERIOD_TIMES[period][1]]

Entries == { Entry(DAYS_ORDER[d], p) : d \in DOMAIN DAYS_ORDER, p \in DOMAIN PERIOD_TIMES }

\* the timetables of at most n entries
RECURSIVE TimetablesUpTo(_)
TimetablesUpTo(n) ==
  IF n = 0 THEN {{}}
  ELSE LET smaller == TimetablesUpTo(n - 1)
       IN  smaller \cup { tt \cup {e} : tt \in smaller, e \in Entries }

\* instants the tool is called at: before the first period, inside periods,
\* inside the morning and the lunch break, after the last period
CallTimes == {T(8, 0), T(9, 0), T(10, 20), T(12, 30), T(14, 0), T(18, 0)}

\* tools/timetable_tools.py find_timetable_entries(timetable_list, day=day)
find_timetable_entries(timetable_list, day) == { e \in timetable_list : e.day = day }

\* min(classes, key=start_time) and the first of sorted(classes, key=start_time)
Earliest(classes) == CHOOSE e \in classes : \A f \in classes : e.start_time <= f.start_time

\* tools/timetable_tools.py is_break_time: the end of the break t falls in, if any
break_end(t) ==
  LET hit == { i \in DOMAIN BREAK_TIMES : BREAK_TIMES[i][1] <= t /\ t <= BREAK_TIMES[i][2] }
  IN  IF hit = {} THEN <<>>
      ELSE <<BREAK_TIMES[CHOOSE i \in hit : \A j \in hit : i <= j][2]>>

\* get_next_class lines 154-196: the entry found (None when there is none),
\* called on weekday wd (0 = Monday) at time t
next_class(timetable_data, wd, t) ==
  LET current_day == days[wd + 1]
      today_classes == find_timetable_entries(timetable_data, current_day)
      be == break_end(t)
      later == IF be # <<>>
               THEN { e \in today_classes : e.start_time >= be[1] }
               ELSE { e \in today_classes : e.start_time > t }
      tomorrow_classes == find_timetable_entries(timetable_data, days[((wd + 1) % 7) + 1])
      monday_classes == find_timetable_entries(timetable_data, "Monday")
  IN  IF later # {} THEN <<Earliest(later)>>
      ELSE IF tomorrow_classes # {} THEN <<Earliest(tomorrow_classes)>>
      ELSE IF monday_classes # {} THEN <<Earliest(monday_classes)>>
      ELSE <<>>

\* get_next_class lines 208-225: the minutes from now to next_datetime, the
\* start of the entry on today's date or days_diff days ahead
minutes_until(entry, wd, t) ==
  LET current_day_idx == wd
      next_day_idx == (CHOOSE i \in DOMAIN days : days[i] = entry.day) - 1
      days_diff == IF entry.day = days[wd + 1] THEN 0
                   ELSE IF next_day_idx <= current_day_idx
                   THEN 7 - current_day_idx + next_day_idx
                   ELSE next_day_idx - current_day_idx
  IN  days_diff * T(24, 0) + entry.start_time - t

NextClassInit ==
  /\ config = "ok" /\ now = 0 /\ slot = NoSlots /\ calls = <<>>
  /\ ret = Ret("none", TRUE, "ok", FALSE)
  /\ arg \in { <<tt>> : tt \in TimetablesUpTo(MaxEntries) }
  /\ val = <<>>

\* the tool, on the timetable arg, with datetime.now() read inside the call
get_next_class ==
  /\ val = <<>>
  /\ \E wd \in 0..6, t \in CallTimes :
       LET found == next_class(arg[1], wd, t)
       IN  val' = <<[weekday |-> wd, time |-> t, next_class |-> found,
                     total_minutes |-> IF found = <<>> THEN <<>>
                                       ELSE <<minutes_until(found[1], wd, t)>>]>>
  /\ UNCHANGED <<session, arg>>

NextClassNext == get_next_class

NextClassSpec == NextClassInit /\ [][NextClassNext]_vars

\* weekday index of a day name
DayIndex(day) == (CHOOSE i \in DOMAIN days : days[i] = day) - 1

\* minutes from (wd, t) to the next start of entry e strictly after it
Wait(e, wd, t) ==
  LET d == ((DayIndex(e.day) - wd + 7) % 7) * T(24, 0) + e.start_time - t
  IN  IF d > 0 THEN d ELSE d + 7 * T(24, 0)

\* C16 (as stated): the lookup returns the entry whose next occurrence is
\* the soonest after now; a class later in the week is found before Monday.
C16_AsStated ==
  (val # <<>> /\ arg[1] # {}) =>
    /\ val[1].next_class # <<>>
    /\ \A e \in arg[1] :
         Wait(val[1].next_class[1], val[1].weekday, val[1].time)
           <= Wait(e, val[1].weekday, val[1].time)

\* ============================================ get_current_period on its own
\* TimeTableScraper.is_break_time
is_break_time(check_time) ==
  \E i \in DOMAIN BREAK_TIMES : BREAK_TIMES[i][1] <= check_time /\ check_time <= BREAK_TIMES[i][2]

\* the periods whose window contains the time
PeriodsAt(t) == { p \in DOMAIN PERIOD_TIMES : PERIOD_TIMES[p][1] <= t /\ t <= PERIOD_TIMES[p][2] }

\* the lookup with the periods searched before the breaks
get_current_period_periodsfirst(current_time) ==
  IF PeriodsAt(current_time) # {}
  THEN CHOOSE p \in PeriodsAt(current_time) : \A q \in PeriodsAt(current_time) : p <= q
  ELSE IF is_break_time(current_time) THEN -1
  ELSE 0

\* the lookup with period windows that leave out their last instant
get_current_period_halfopen(current_time) ==
  LET open == { p \in DOMAIN PERIOD_TIMES :
                  PERIOD_TIMES[p][1] <= current_time /\ current_time < PERIOD_TIMES[p][2] }
  IN  IF is_break_time(current_time) THEN -1
      ELSE IF open # {} THEN CHOOSE p \in open : \A q \in open : p <= q
      ELSE 0

\* TimeTableScraper.get_current_period: PERIOD_TIMES is searched in
\* insertion order, 1 to 8
get_current_period(current_time) ==
  IF is_break_time(current_time) THEN -1
  ELSE IF PeriodsAt(current_time) # {}
  THEN CHOOSE p \in PeriodsAt(current_time) : \A q \in PeriodsAt(current_time) : p <= q
  ELSE 0

\* every minute of the day
PeriodInit ==
  /\ config = "ok" /\ now = 0 /\ slot = NoSlots /\ calls = <<>>
  /\ ret = Ret("none", TRUE, "ok", FALSE)
  /\ arg \in { <<t>> : t \in 0..(T(24, 0) - 1) }
  /\ val = <<>>

CurrentPeriod ==
  /\ val = <<>>
  /\ val' = <<get_current_period(arg[1])>>
  /\ UNCHANGED <<session, arg>>

PeriodNext == CurrentPeriod

PeriodSpec == PeriodInit /\ [][PeriodNext]_vars

\* C17: a time inside a break window gives -1, also when it is the first or
\* last instant of a period; any other time inside a period's [start, end]
\* gives a period containing it; every other time gives 0.
C17_BreakFirst ==
  val # <<>> =>
    LET t == arg[1]
        inBreak == \/ (T(10, 10) <= t /\ t <= T(10, 30))
                   \/ (T(12, 10) <= t /\ t <= T(13, 40))
                   \/ (T(15, 20) <= t /\ t <= T(15, 30))
    IN  /\ inBreak => val[1] = -1
        /\ (~inBreak /\ PeriodsAt(t) # {}) => val[1] \in PeriodsAt(t)
        /\ (~inBreak /\ PeriodsAt(t) = {}) => val[1] = 0

\* 10:10 is the end of period 2 and the start of the morning break
C17_Witness ==
  /\ val # <<>>
  /\ arg[1] = T(10, 10)
  /\ 2 \in PeriodsAt(arg[1])
  /\ val[1] = -1

\* ===================================================== the page parsers
\* ---- timetable page
\* the colspan attribute of a <td>: absent, or its text
ColspanAttrs == {"absent", "2", "3", "4", "x"}

\* int(cell.get('colspan', 1)): <<n>>, or <<>> when int() raises ValueError
colspan_int(a) ==
  CASE a = "absent" -> <<1>>
    [] a = "2" -> <<2>>
    [] a = "3" -> <<3>>
    [] a = "4" -> <<4>>
    [] OTHER -> <<>>

\* a <td>: "blank" has no text or "-"; "course" has a tooltip-wrapper with a
\* code or a name (_parse_timetable_cell returns a dict); "text" has text
\* that _parse_timetable_cell returns None for
Cells == [kind : {"blank", "text", "course"}, colspan : ColspanAttrs]

\* the sequences over S of length at most n
SeqsUpTo(S, n) == UNION { [1..k -> S] : k \in 0..n }

\* a <tr>: its <th> text (None without a <th>) and its <td> cells
DayRows(day, n) == [header : {<<>>, <<day>>}, cells : SeqsUpTo(Cells, n)]

TimeTableEntry(day, period, start_time, end_time) ==
  [day |-> day, period |-> period, start_time |-> start_time, end_time |-> end_time]

\* the entry of a cell that ends with its first period
CellEntry_noextend(day, current_period, colspan) ==
  LET times == IF current_period \in DOMAIN PERIOD_TIMES
               THEN PERIOD_TIMES[current_period] ELSE <<T(8, 0), T(8, 50)>>
  IN  TimeTableEntry(day, current_period, times[1], times[2])

\* _parse_timetable_table lines 310-325: the entry of a course cell
CellEntry(day, current_period, colspan) ==
  LET times == IF current_period \in DOMAIN PERIOD_TIMES
               THEN PERIOD_TIMES[current_period] ELSE <<T(8, 0), T(8, 50)>>
      end_time == IF colspan > 1 /\ (current_period + colspan - 1) \in DOMAIN PERIOD_TIMES
                  THEN PERIOD_TIMES[current_period + colspan - 1][2] ELSE times[2]
  IN  TimeTableEntry(day, current_period, times[1], end_time)

\* the cells from the i-th on, where a cell without an entry leaves the
\* period counter as it is
RECURSIVE ParseCells_blankstays(_, _, _, _, _)
ParseCells_blankstays(day, cells, i, current_period, timetable_entries) ==
  IF i > Len(cells) THEN [entries |-> timetable_entries, raised |-> FALSE]
  ELSE LET colspan == colspan_int(cells[i].colspan)
       IN  IF colspan = <<>> THEN [entries |-> timetable_entries, raised |-> TRUE]
           ELSE IF cells[i].kind = "course"
           THEN ParseCells_blankstays(day, cells, i + 1, current_period + colspan[1],
                  Append(timetable_entries, CellEntry(day, current_period, colspan[1])))
           ELSE ParseCells_blankstays(day, cells, i + 1, current_period, timetable_entries)

\* _parse_timetable_table lines 293-332: the cells from the i-th on, with
\* the entries appended so far; raised when int() raised
RECURSIVE ParseCells(_, _, _, _, _)
ParseCells(day, cells, i, current_period, timetable_entries) ==
  IF i > Len(cells) THEN [entries |-> timetable_entries, raised |-> FALSE]
  ELSE LET colspan == colspan_int(cells[i].colspan)
       IN  IF colspan = <<>> THEN [entries |-> timetable_entries, raised |-> TRUE]
           ELSE IF cells[i].kind = "course"
           THEN ParseCells(day, cells, i + 1, current_period + colspan[1],
                           Append(timetable_entries, CellEntry(day, current_period, colspan[1])))
           ELSE ParseCells(day, cells, i + 1, current_period + colspan[1], timetable_entries)

\* _parse_timetable_table lines 274-336: the rows from the i-th on
RECURSIVE ParseDayRows(_, _, _)
ParseDayRows(rows, i, timetable_entries) ==
  IF i > Len(rows) THEN timetable_entries
  ELSE IF rows[i].header = <<>> \/ rows[i].cells = <<>>
  THEN ParseDayRows(rows, i + 1, timetable_entries)
  ELSE ParseDayRows(rows, i + 1,
                    ParseCells(rows[i].header[1], rows[i].cells, 1, 1, timetable_entries).entries)

\* TimeTableScraper._parse_timetable_table, on the rows of the table's tbody
parse_timetable_table(rows) == ParseDayRows(rows, 1, <<>>)

\* a well-formed Monday row: a one-period class and a two-period lab
MondayRow ==
  [header |-> <<"Monday">>,
   cells |-> <<[kind |-> "course", colspan |-> "absent"], [kind |-> "course", colspan |-> "2"]>>]

\* the tbody rows of a timetable page: the row r alone or next to the
\* Monday row
TimetablePages(r) == {<<r>>, <<MondayRow, r>>, <<r, MondayRow>>}

\* ---- attendance page
\* _parse_attendance_table: the columns a row must have
MinColumns == 10

CourseCodes == {"CS101", "MA102"}

\* a <tr> of the attendance table: its first cell, how many <td> it has, and
\* whether building its record raises inside the try block
AttendanceRows ==
  [course_code : CourseCodes, cols : {MinColumns - 1, MinColumns}, fails : BOOLEAN]

\* _parse_attendance_table lines 230-288: the rows from the i-th on
RECURSIVE ParseAttendanceRows(_, _, _)
ParseAttendanceRows(rows, i, attendance_list) ==
  IF i > Len(rows) THEN attendance_list
  ELSE IF rows[i].cols < MinColumns \/ rows[i].fails
  THEN ParseAttendanceRows(rows, i + 1, attendance_list)
  ELSE ParseAttendanceRows(rows, i + 1,
                           Append(attendance_list, [course_code |-> rows[i].course_code]))

\* AttendanceScraper._parse_attendance_table, on the rows of the table's tbody
parse_attendance_table(rows) == ParseAttendanceRows(rows, 1, <<>>)

\* ---- course page
CourseNames == {"Data Structures", "DS"}

\* card.stripped_strings of a <div class="card">: a code alone, a code and a
\* name, or a code, a name and a further line
Cards ==
  { <<c>> : c \in CourseCodes } \cup (CourseCodes \X CourseNames)
    \cup (CourseCodes \X CourseNames \X {"3 credits"})

\* a dict assignment that keeps the value already stored under the key
dict_set_keepfirst(course_dict, key, value) ==
  IF \E i \in DOMAIN course_dict : course_dict[i].course_code = key
  THEN course_dict
  ELSE Append(course_dict, [course_code |-> key, course_name |-> value])

\* course_dict[key] = value: a dict keeps the order of first insertion
dict_set(course_dict, key, value) ==
  IF \E i \in DOMAIN course_dict : course_dict[i].course_code = key
  THEN [i \in DOMAIN course_dict |->
          IF course_dict[i].course_code = key
          THEN [course_code |-> key, course_name |-> value] ELSE course_dict[i]]
  ELSE Append(course_dict, [course_code |-> key, course_name |-> value])

\* _parse_course_page lines 146-152: the cards from the i-th on
RECURSIVE ParseCards(_, _, _)
ParseCards(card_divs, i, course_dict) ==
  IF i > Len(card_divs) THEN course_dict
  ELSE IF Len(card_divs[i]) >= 2
  THEN ParseCards(card_divs, i + 1, dict_set(course_dict, card_divs[i][1], card_divs[i][2]))
  ELSE ParseCards(card_divs, i + 1, course_dict)

\* CourseCodeScraper._parse_course_page: the CourseInfo list
parse_course_page(card_divs) == ParseCards(card_divs, 1, <<>>)

\* ---- the parsers applied to one page
Page(page, body) == [page |-> page, body |-> body]

ParseInit ==
  /\ config = "ok" /\ now = 0 /\ slot = NoSlots /\ calls = <<>>
  /\ ret = Ret("none", TRUE, "ok", FALSE)
  /\ \/ \E r \in DayRows("Tuesday", MaxCells) :
          arg \in { <<Page("timetable", rows)>> : rows \in TimetablePages(r) }
     \/ arg \in { <<Page("attendance", rows)>> : rows \in SeqsUpTo(AttendanceRows, MaxRows) }
     \/ arg \in { <<Page("course", card_divs)>> : card_divs \in SeqsUpTo(Cards, MaxCards) }
  /\ val = <<>>

ParseTimetable ==
  /\ val = <<>> /\ arg[1].page = "timetable"
  /\ val' = <<parse_timetable_table(arg[1].body)>>
  /\ UNCHANGED <<session, arg>>

ParseAttendance ==
  /\ val = <<>> /\ arg[1].page = "attendance"
  /\ val' = <<parse_attendance_table(arg[1].body)>>
  /\ UNCHANGED <<session, arg>>

ParseCourses ==
  /\ val = <<>> /\ arg[1].page = "course"
  /\ val' = <<parse_course_page(arg[1].body)>>
  /\ UNCHANGED <<session, arg>>

ParseNext ==
  \/ ParseTimetable
  \/ ParseAttendance
  \/ ParseCourses

ParseSpec == ParseInit /\ [][ParseNext]_vars

\* the colspans of the first i cells are all integers
ValidUpTo(cells, i) == \A j \in 1..i : colspan_int(cells[j].colspan) # <<>>

\* 1 + the colspans of the cells before the i-th
RECURSIVE StartPeriod(_, _)
StartPeriod(cells, i) ==
  IF i = 1 THEN 1 ELSE StartPeriod(cells, i - 1) + colspan_int(cells[i - 1].colspan)[1]

\* the positions of the result that hold an entry of this day and period
At(entries, day, period) ==
  { n \in DOMAIN entries : entries[n].day = day /\ entries[n].period = period }

\* C18: a parsable cell with colspan c starting at period p, p + c - 1 <= 8,
\* gives exactly one entry: period p, start of p, end of period p + c - 1;
\* the next cell of the row is at period p + c.
C18_Colspan ==
  (val # <<>> /\ arg[1].page = "timetable") =>
    \A k \in DOMAIN arg[1].body :
      LET row == arg[1].body[k]
      IN  row.header # <<>> =>
            \A i \in DOMAIN row.cells :
              (row.cells[i].kind = "course" /\ ValidUpTo(row.cells, i)) =>
                LET p == StartPeriod(row.cells, i)
                    c == colspan_int(row.cells[i].colspan)[1]
                    here == At(val[1], row.header[1], p)
                IN  p + c - 1 <= 8 =>
                      /\ Cardinality(here) = 1
                      /\ \A n \in here :
                           /\ val[1][n].start_time = PERIOD_TIMES[p][1]
                           /\ val[1][n].end_time = PERIOD_TIMES[p + c - 1][2]
                      /\ (i < Len(row.cells) /\ row.cells[i + 1].kind = "course"
                            /\ ValidUpTo(row.cells, i + 1))
                           => At(val[1], row.header[1], p + c) # {}

\* colspan 2 at period 3: one entry, period 3, end of period 4, next cell at 5
C18_Witness ==
  /\ val # <<>> /\ arg[1].page = "timetable"
  /\ arg[1].body = << [header |-> <<"Tuesday">>,
                       cells |-> << [kind |-> "blank", colspan |-> "2"],
                                    [kind |-> "course", colspan |-> "2"],
                                    [kind |-> "course", colspan |-> "absent"] >>] >>
  /\ val[1] = << TimeTableEntry("Tuesday", 3, T(10, 30), T(12, 10)),
                 TimeTableEntry("Tuesday", 5, T(13, 40), T(14, 30)) >>

\* the cards that carry a code and a name
Named(card_divs) == { i \in DOMAIN card_divs : Len(card_divs[i]) >= 2 }

\* C19: the parsed course list has exactly one entry per distinct code, and
\* its name is the name of the last card with that code.
C19_LastWins ==
  (val # <<>> /\ arg[1].page = "course") =>
    LET card_divs == arg[1].body
        codes == { card_divs[i][1] : i \in Named(card_divs) }
    IN  /\ \A n \in DOMAIN val[1] : val[1][n].course_code \in codes
        /\ \A c \in codes :
             LET of_c == { i \in Named(card_divs) : card_divs[i][1] = c }
                 last == CHOOSE i \in of_c : \A j \in of_c : j <= i
                 found == { n \in DOMAIN val[1] : val[1][n].course_code = c }
             IN  /\ Cardinality(found) = 1
                 /\ \A n \in found : val[1][n].course_name = card_divs[last][2]

\* "CS101"/"Data Structures" then "CS101"/"DS" give the single entry CS101 -> DS
C19_Witness ==
  /\ val # <<>> /\ arg[1].page = "course"
  /\ arg[1].body = << <<"CS101", "Data Structures">>, <<"CS101", "DS">> >>
  /\ val[1] = << [course_code |-> "CS101", course_name |-> "DS"] >>

\* what a row gives when a row that fails gives nothing
RowAlone(page, row) ==
  IF page = "attendance" THEN parse_attendance_table(<<row>>)
  ELSE IF row.header = <<>> \/ ~ValidUpTo(row.cells, Len(row.cells)) THEN <<>>
  ELSE parse_timetable_table(<<row>>)

RECURSIVE RowByRow(_, _, _)
RowByRow(page, rows, i) ==
  IF i > Len(rows) THEN <<>> ELSE RowAlone(page, rows[i]) \o RowByRow(page, rows, i + 1)

\* C20 (as stated): a row that cannot be parsed contributes no record, and
\* the records of all other rows are returned, for attendance rows and for
\* timetable day rows.
C20_AsStated ==
  (val # <<>> /\ arg[1].page \in {"attendance", "timetable"}) =>
    val[1] = RowByRow(arg[1].page, arg[1].body, 1)

\* ================================================ one table row, cell by cell
\* the text of a numeric <td>: empty, the placeholder, words, a decimal, and
\* a whole number with blanks around it
Texts == {"", "*", "n/a", "12.5", " 40 "}

\* str.strip()
strip(text) == IF text = " 40 " THEN "40" ELSE text

\* int(text): <<n>>, or <<>> when it raises ValueError
int_of(text) == IF text = "40" THEN <<40>> ELSE <<>>

\* float(text), in tenths: <<n>>, or <<>> when it raises ValueError
float_of(text) ==
  CASE text = "40" -> <<400>>
    [] text = "12.5" -> <<125>>
    [] OTHER -> <<>>

\* _parse_attendance_table.safe_int
safe_int(text) ==
  LET t == strip(text)
  IN  IF t # "" /\ t # "*" /\ int_of(t) # <<>> THEN int_of(t)[1] ELSE 0

\* _parse_attendance_table.safe_float, in tenths
safe_float(text) ==
  LET t == strip(text)
  IN  IF t # "" /\ t # "*" /\ float_of(t) # <<>> THEN float_of(t)[1] ELSE 0

\* _parse_lab_table.parse_mark / _parse_theory_table.parse_mark, in tenths;
\* <<>> is None
parse_mark(mark_text) ==
  LET t == strip(mark_text)
  IN  IF t # "" /\ t # "*" THEN float_of(t) ELSE <<>>

\* an attendance <tr> of ten <td>: cols[0], the seven numeric cells
\* cols[1..7], cols[8] and cols[9]
AttendanceCells ==
  [course_code : {"CS101"}, numeric : [1..7 -> Texts],
   attendance_from : {"01-07"}, attendance_to : {"30-11"}]

\* the row's record is left out when a numeric cell does not parse
attendance_records_dropping(cols) ==
  IF \E i \in 1..4 : int_of(strip(cols.numeric[i])) = <<>> THEN <<>>
  ELSE IF \E i \in 5..7 : float_of(strip(cols.numeric[i])) = <<>> THEN <<>>
  ELSE << [course_code |-> cols.course_code,
           total_hours |-> safe_int(cols.numeric[1]),
           exempted_hours |-> safe_int(cols.numeric[2]),
           absent_hours |-> safe_int(cols.numeric[3]),
           present_hours |-> safe_int(cols.numeric[4]),
           attendance_percentage |-> safe_float(cols.numeric[5]),
           exemption_percentage |-> safe_float(cols.numeric[6]),
           exemption_med_percentage |-> safe_float(cols.numeric[7]),
           attendance_from |-> cols.attendance_from,
           attendance_to |-> cols.attendance_to,
           available_bunks |->
             calculate_available_bunks(safe_int(cols.numeric[1]), safe_int(cols.numeric[4]),
                                       safe_int(cols.numeric[3]), min_attendance_default)] >>

\* _parse_attendance_table lines 236-282: what a row of ten cells appends
attendance_records(cols) ==
  << [course_code |-> cols.course_code,
      total_hours |-> safe_int(cols.numeric[1]),
      exempted_hours |-> safe_int(cols.numeric[2]),
      absent_hours |-> safe_int(cols.numeric[3]),
      present_hours |-> safe_int(cols.numeric[4]),
      attendance_percentage |-> safe_float(cols.numeric[5]),
      exemption_percentage |-> safe_float(cols.numeric[6]),
      exemption_med_percentage |-> safe_float(cols.numeric[7]),
      attendance_from |-> cols.attendance_from,
      attendance_to |-> cols.attendance_to,
      available_bunks |->
        calculate_available_bunks(safe_int(cols.numeric[1]), safe_int(cols.numeric[4]),
                                  safe_int(cols.numeric[3]), min_attendance_default)] >>

\* a lab <tr> of six <td>: code, name and four marks
LabCells == [subject_code : {"CS101"}, subject_name : {"DS Lab"}, marks : [1..4 -> Texts]]

\* _parse_lab_table lines 252-267: what a row of six cells appends
lab_records(cols) ==
  << [subject_code |-> cols.subject_code,
      subject_name |-> cols.subject_name,
      ca1_marks |-> parse_mark(cols.marks[1]),
      ca2_marks |-> parse_mark(cols.marks[2]),
      total_marks |-> parse_mark(cols.marks[3]),
      conv_total |-> parse_mark(cols.marks[4])] >>

\* a theory <tr> of twelve <td>: code, name and ten marks
TheoryCells ==
  [subject_code : {"MA102"}, subject_name : {"Calculus"}, marks : [1..10 -> {"n/a", "12.5"}]]

\* _parse_theory_table lines 281-302: what a row of twelve cells appends
theory_records(cols) ==
  << [subject_code |-> cols.subject_code,
      subject_name |-> cols.subject_name,
      t1_marks |-> parse_mark(cols.marks[1]),
      t2_marks |-> parse_mark(cols.marks[2]),
      rt_marks |-> parse_mark(cols.marks[3]),
      rt1_marks |-> parse_mark(cols.marks[4]),
      rt2_marks |-> parse_mark(cols.marks[5]),
      test_total |-> parse_mark(cols.marks[6]),
      ap_marks |-> parse_mark(cols.marks[7]),
      mpt_marks |-> parse_mark(cols.marks[8]),
      total_marks |-> parse_mark(cols.marks[9]),
      conv_total |-> parse_mark(cols.marks[10])] >>

Row(table, cols) == [table |-> table, cols |-> cols]

CoerceInit ==
  /\ config = "ok" /\ now = 0 /\ slot = NoSlots /\ calls = <<>>
  /\ ret = Ret("none", TRUE, "ok", FALSE)
  /\ \/ arg \in { <<Row("attendance", cols)>> : cols \in AttendanceCells }
     \/ arg \in { <<Row("lab", cols)>> : cols \in LabCells }
     \/ arg \in { <<Row("theory", cols)>> : cols \in TheoryCells }
  /\ val = <<>>

AttendanceRow ==
  /\ val = <<>> /\ arg[1].table = "attendance"
  /\ val' = <<attendance_records(arg[1].cols)>>
  /\ UNCHANGED <<session, arg>>

LabRow ==
  /\ val = <<>> /\ arg[1].table = "lab"
  /\ val' = <<lab_records(arg[1].cols)>>
  /\ UNCHANGED <<session, arg>>

TheoryRow ==
  /\ val = <<>> /\ arg[1].table = "theory"
  /\ val' = <<theory_records(arg[1].cols)>>
  /\ UNCHANGED <<session, arg>>

CoerceNext ==
  \/ AttendanceRow
  \/ LabRow
  \/ TheoryRow

CoerceSpec == CoerceInit /\ [][CoerceNext]_vars

\* the value the claim gives an hour cell, a percentage cell and a mark cell
ClaimedInt(text) == IF text \in {"", "*", "n/a", "12.5"} THEN 0 ELSE 40

ClaimedFloat(text) ==
  IF text \in {"", "*", "n/a"} THEN 0 ELSE IF text = "12.5" THEN 125 ELSE 400

ClaimedMark(text) ==
  IF text \in {"", "*", "n/a"} THEN <<>> ELSE IF text = "12.5" THEN <<125>> ELSE <<400>>

\* C21: a row with all its columns is never dropped for a malformed or '*'
\* numeric cell: the attendance parser stores 0 for it, the marks parsers
\* store None, and the row's other fields are what their cells say.
C21_CoercedNotDropped ==
  val # <<>> =>
    LET cols == arg[1].cols
    IN  /\ Len(val[1]) = 1
        /\ arg[1].table = "attendance" =>
             LET rec == val[1][1]
             IN  /\ rec.course_code = cols.course_code
                 /\ rec.total_hours = ClaimedInt(cols.numeric[1])
                 /\ rec.exempted_hours = ClaimedInt(cols.numeric[2])
                 /\ rec.absent_hours = ClaimedInt(cols.numeric[3])
                 /\ rec.present_hours = ClaimedInt(cols.numeric[4])
                 /\ rec.attendance_percentage = ClaimedFloat(cols.numeric[5])
                 /\ rec.exemption_percentage = ClaimedFloat(cols.numeric[6])
                 /\ rec.exemption_med_percentage = ClaimedFloat(cols.numeric[7])
                 /\ rec.attendance_from = cols.attendance_from
                 /\ rec.attendance_to = cols.attendance_to
        /\ arg[1].table = "lab" =>
             LET rec == val[1][1]
             IN  /\ rec.subject_code = cols.subject_code
                 /\ rec.subject_name = cols.subject_name
                 /\ rec.ca1_marks = ClaimedMark(cols.marks[1])
                 /\ rec.ca2_marks = ClaimedMark(cols.marks[2])
                 /\ rec.total_marks = ClaimedMark(cols.marks[3])
                 /\ rec.conv_total = ClaimedMark(cols.marks[4])
        /\ arg[1].table = "theory" =>
             LET rec == val[1][1]
             IN  /\ rec.subject_code = cols.subject_code
                 /\ rec.subject_name = cols.subject_name
                 /\ rec.t1_marks = ClaimedMark(cols.marks[1])
                 /\ rec.t2_marks = ClaimedMark(cols.marks[2])
                 /\ rec.rt_marks = ClaimedMark(cols.marks[3])
                 /\ rec.rt1_marks = ClaimedMark(cols.marks[4])
                 /\ rec.rt2_marks = ClaimedMark(cols.marks[5])
                 /\ rec.test_total = ClaimedMark(cols.marks[6])
                 /\ rec.ap_marks = ClaimedMark(cols.marks[7])
                 /\ rec.mpt_marks = ClaimedMark(cols.marks[8])
                 /\ rec.total_marks = ClaimedMark(cols.marks[9])
                 /\ rec.conv_total = ClaimedMark(cols.marks[10])

\* total hours '*', present hours 40: the row is there with total_hours 0
C21_Witness ==
  /\ val # <<>> /\ arg[1].table = "attendance"
  /\ arg[1].cols.numeric[1] = "*"
  /\ arg[1].cols.numeric[4] = " 40 "
  /\ Len(val[1]) = 1
  /\ val[1][1].total_hours = 0
  /\ val[1][1].present_hours = 40

\* ============================================== whole pages and their containers
\* an attendance or timetable page: is there a <table> the parser looks for,
\* has it a <tbody>, and the <tr> rows
Html(table, tbody, rows) == [table |-> table, tbody |-> tbody, rows |-> rows]

\* a parser's outcome: an exception, or the collection returned
Returned(data) == [raised |-> FALSE, data |-> data]

\* the parser without its guards: None.find raises AttributeError
parse_attendance_html_unguarded(doc) ==
  IF ~doc.table \/ ~doc.tbody THEN [raised |-> TRUE, data |-> <<>>]
  ELSE Returned(parse_attendance_table(doc.rows))

\* AttendanceScraper._parse_attendance_table lines 213-228, 290-291
parse_attendance_html(doc) ==
  IF ~doc.table THEN Returned(<<>>)
  ELSE IF ~doc.tbody THEN Returned(<<>>)
  ELSE Returned(parse_attendance_table(doc.rows))

\* TimeTableScraper._parse_timetable_table lines 254-270, 338-339
parse_timetable_html(doc) ==
  IF ~doc.table THEN Returned(<<>>)
  ELSE IF ~doc.tbody THEN Returned(<<>>)
  ELSE Returned(parse_timetable_table(doc.rows))

\* CourseCodeScraper._parse_course_page lines 139-144, 154-155
parse_course_html(card_divs) ==
  IF card_divs = <<>> THEN Returned(<<>>) ELSE Returned(parse_course_page(card_divs))

\* ---- marks page
\* _parse_lab_table: the columns a lab row must have
LabColumns == 6

\* _parse_theory_table: the columns a theory row must have
TheoryColumns == 12

\* find_all('tr')[2:]: the rows skipped at the top of a marks table
HeaderRows == 2

\* the texts of <th> cells
HeaderTexts == {"LT1", "T1", "RT1"}

\* "LT1" in header.text / "T1" in header.text
Contains(text, marker) ==
  IF marker = "LT1" THEN text = "LT1" ELSE text \in {"LT1", "T1", "RT1"}

\* a <tr> of a marks table by its number of <td>; the <tr> lists of a table:
\* none, the two header rows, and the header rows with one data row
MarksRows ==
  { <<>>, <<0, 0>>, <<0, 0, LabColumns - 1>>, <<0, 0, LabColumns>>, <<0, 0, TheoryColumns>> }

MarksTables == [headers : SUBSET HeaderTexts, trs : MarksRows]

\* _parse_lab_table / _parse_theory_table: one record per row, after the
\* header rows, that has at least the columns needed
parse_marks_table(table, columns) ==
  LET kept == { i \in DOMAIN table.trs : i > HeaderRows /\ table.trs[i] >= columns }
      RECURSIVE From(_)
      From(i) == IF i > Len(table.trs) THEN <<>>
                 ELSE IF i \in kept THEN <<[tds |-> table.trs[i]]>> \o From(i + 1)
                 ELSE From(i + 1)
  IN  From(1)

HasMarker(table, marker) == \E h \in table.headers : Contains(h, marker)

\* the classification with the theory marker looked for first
parse_marks_tables_theoryfirst(tables) ==
  LET RECURSIVE From(_, _)
      From(i, result) ==
        IF i > Len(tables) THEN result
        ELSE IF HasMarker(tables[i], "T1")
        THEN From(i + 1, [result EXCEPT !.theory_courses =
                            @ \o parse_marks_table(tables[i], TheoryColumns)])
        ELSE IF HasMarker(tables[i], "LT1")
        THEN From(i + 1, [result EXCEPT !.lab_courses =
                            @ \o parse_marks_table(tables[i], LabColumns)])
        ELSE From(i + 1, result)
  IN  Returned(From(1, [lab_courses |-> <<>>, theory_courses |-> <<>>]))

\* CAMarksScraper._parse_marks_tables
parse_marks_tables(tables) ==
  LET RECURSIVE From(_, _)
      From(i, result) ==
        IF i > Len(tables) THEN result
        ELSE IF HasMarker(tables[i], "LT1")
        THEN From(i + 1, [result EXCEPT !.lab_courses =
                            @ \o parse_marks_table(tables[i], LabColumns)])
        ELSE IF HasMarker(tables[i], "T1")
        THEN From(i + 1, [result EXCEPT !.theory_courses =
                            @ \o parse_marks_table(tables[i], TheoryColumns)])
        ELSE From(i + 1, result)
  IN  Returned(From(1, [lab_courses |-> <<>>, theory_courses |-> <<>>]))

DocInit ==
  /\ config = "ok" /\ now = 0 /\ slot = NoSlots /\ calls = <<>>
  /\ ret = Ret("none", TRUE, "ok", FALSE)
  /\ \/ \E table, tbody \in BOOLEAN :
          arg \in { <<Page("attendance", Html(table, tbody, rows))>> :
                      rows \in SeqsUpTo(AttendanceRows, MaxRows) }
     \/ \E table, tbody \in BOOLEAN :
          arg \in { <<Page("timetable", Html(table, tbody, <<r>>))>> :
                      r \in DayRows("Tuesday", MaxCells) }
     \/ arg \in { <<Page("course", card_divs)>> : card_divs \in SeqsUpTo(Cards, MaxCards) }
     \/ arg \in { <<Page("marks", tables)>> : tables \in SeqsUpTo(MarksTables, MaxTables) }
  /\ val = <<>>

\* the parser of the page's scraper on the page
ParseDocument(page, parsed) ==
  /\ val = <<>> /\ arg[1].page = page
  /\ val' = <<parsed>>
  /\ UNCHANGED <<session, arg>>

AttendanceDocument == ParseDocument("attendance", parse_attendance_html(arg[1].body))

TimetableDocument == ParseDocument("timetable", parse_timetable_html(arg[1].body))

CourseDocument == ParseDocument("course", parse_course_html(arg[1].body))

MarksDocument == ParseDocument("marks", parse_marks_tables(arg[1].body))

DocNext ==
  \/ AttendanceDocument
  \/ TimetableDocument
  \/ CourseDocument
  \/ MarksDocument

DocSpec == DocInit /\ [][DocNext]_vars

\* C22: a page without its container (no course card, no attendance or
\* timetable table or tbody, no marks table) parses to an empty collection
\* (empty lab and theory lists for marks) and nothing is raised.
C22_MissingStructureEmpty ==
  val # <<>> =>
    LET body == arg[1].body
    IN  /\ (arg[1].page \in {"attendance", "timetable"} /\ (~body.table \/ ~body.tbody))
             => val[1] = [raised |-> FALSE, data |-> <<>>]
        /\ (arg[1].page = "course" /\ Len(body) = 0)
             => val[1] = [raised |-> FALSE, data |-> <<>>]
        /\ (arg[1].page = "marks" /\ Len(body) = 0)
             => val[1] = [raised |-> FALSE,
                          data |-> [lab_courses |-> <<>>, theory_courses |-> <<>>]]

\* an attendance table without <tbody> whose rows would parse
C22_Witness ==
  /\ val # <<>> /\ arg[1].page = "attendance"
  /\ arg[1].body.table /\ ~arg[1].body.tbody
  /\ parse_attendance_table(arg[1].body.rows) # <<>>
  /\ val[1] = [raised |-> FALSE, data |-> <<>>]

\* the kind the claim gives a table by its header cells
ClaimedKind(table) ==
  IF "LT1" \in table.headers THEN "lab"
  ELSE IF table.headers \cap {"T1", "RT1"} # {} THEN "theory"
  ELSE "ignored"

\* the data rows, in page order, of the tables of one kind
RECURSIVE ClaimedRows(_, _, _, _)
ClaimedRows(tables, i, kind, columns) ==
  IF i > Len(tables) THEN <<>>
  ELSE (IF ClaimedKind(tables[i]) = kind /\ Len(tables[i].trs) > 2 /\ tables[i].trs[3] >= columns
        THEN <<[tds |-> tables[i].trs[3]]>> ELSE <<>>)
       \o ClaimedRows(tables, i + 1, kind, columns)

\* C23: a marks table with the header marker LT1 is parsed as a lab table
\* (although LT1 contains T1), otherwise one with T1 as a theory table, and a
\* table with neither marker adds nothing to either list.
C23_LabTakesPrecedence ==
  (val # <<>> /\ arg[1].page = "marks") =>
    /\ ~val[1].raised
    /\ val[1].data.lab_courses = ClaimedRows(arg[1].body, 1, "lab", 6)
    /\ val[1].data.theory_courses = ClaimedRows(arg[1].body, 1, "theory", 12)

\* a table whose headers hold LT1 and T1, with a six-column row
C23_Witness ==
  /\ val # <<>> /\ arg[1].page = "marks"
  /\ arg[1].body = << [headers |-> {"LT1", "T1"}, trs |-> <<0, 0, 6>>] >>
  /\ val[1].data = [lab_courses |-> <<[tds |-> 6]>>, theory_courses |-> <<>>]

\* the cells of a row that reach the entry-building code: course cells whose
\* colspan, and that of every cell before them, is an integer
Emitting(cells) ==
  { i \in DOMAIN cells : cells[i].kind = "course" /\ ValidUpTo(cells, i) }

\* the positions of the result that hold an entry of this day
OfDay(entries, day) == { n \in DOMAIN entries : entries[n].day = day }

\* C24: a cell that is empty, a dash or without course information emits no
\* entry and advances the period counter by its colspan: the entries of a row
\* are one per course cell, each at period 1 + the colspans of the cells
\* before it in the row.
C24_PeriodIsOffset ==
  (val # <<>> /\ arg[1].page = "timetable") =>
    \A k \in DOMAIN arg[1].body :
      LET row == arg[1].body[k]
      IN  row.header # <<>> =>
            LET mine == OfDay(val[1], row.header[1])
            IN  /\ Cardinality(mine) = Cardinality(Emitting(row.cells))
                /\ { val[1][n].period : n \in mine }
                     = { StartPeriod(row.cells, i) : i \in Emitting(row.cells) }

\* a dash cell spanning two periods, a text cell without course information,
\* then a course cell: its entry is at period 4
C24_Witness ==
  /\ val # <<>> /\ arg[1].page = "timetable"
  /\ arg[1].body = << [header |-> <<"Tuesday">>,
                       cells |-> << [kind |-> "blank", colspan |-> "2"],
                                    [kind |-> "text", colspan |-> "absent"],
                                    [kind |-> "course", colspan |-> "absent"] >>] >>
  /\ val[1] = << TimeTableEntry("Tuesday", 4, T(11, 20), T(12, 10)) >>

\* C25 (as stated): every entry the timetable parser emits, whatever the
\* number of cells and their colspans, has a period in 1..8 and starts at the
\* start of that period in PERIOD_TIMES.
C25_AsStated ==
  (val # <<>> /\ arg[1].page = "timetable") =>
    \A n \in DOMAIN val[1] :
      /\ val[1][n].period \in 1..8
      /\ val[1][n].start_time = PERIOD_TIMES[val[1][n].period][1]

\* C26: for total_hours > 0 and present_hours >= 75% of total_hours, with b
\* the available bunks of the row, b more skipped classes keep the attendance
\* at or above 75% and b + 1 skipped classes bring it below.
C26_BunksAreSkippable ==
  (val # <<>> /\ val[1].by = "row"
     /\ arg[1].total_hours > 0 /\ 4 * arg[1].present_hours >= 3 * arg[1].total_hours) =>
    LET b == val[1].available_bunks
        total == arg[1].total_hours
        present == arg[1].present_hours
    IN  /\ 100 * present >= 75 * (total + b)
        /\ 100 * present < 75 * (total + b + 1)

\* 33 of 40 hours present: 4 bunks, after which 33 of 44 is exactly 75%
C26_Witness ==
  /\ val # <<>> /\ val[1].by = "row"
  /\ arg[1].total_hours = 40 /\ arg[1].present_hours = 33
  /\ val[1].available_bunks = 4

\* the instance holds an empty list parsed less than 30 minutes ago
HoldsFreshEmpty(s) ==
  /\ s.cache # <<>>
  /\ s.cache[1].data = "empty"
  /\ s.last_fetch # <<>>
  /\ Age(s) < CacheMinutes

\* C27: a caching scraper that stored an empty parse result does not serve it:
\* its next fetch inside the 30 minutes sends requests again, and what it
\* returns is parsed from a page received in that fetch, not the stored list.
C27_EmptyNeverServed ==
  \A r \in CachingFetches :
    HoldsFreshEmpty(r.pre[1]) =>
      /\ r.log # <<>>
      /\ ~r.raised => /\ r.pages # <<>>
                      /\ r.result[1].at = now
                      /\ r.result[1].data = r.pages[Len(r.pages)].data

\* a timetable fetch on an instance whose empty list is 10 minutes old, which
\* fetches the page again and this time parses records
C27_Witness ==
  \E r \in CachingFetches :
    /\ r.kind = "timetable"
    /\ HoldsFreshEmpty(r.pre[1])
    /\ Age(r.pre[1]) > 0
    /\ ~r.raised
    /\ r.log # <<>>
    /\ r.result[1].data # "empty"

\* C28 (as stated): whenever get_next_class reports success, on every
\* weekday, at every time and for every timetable, next_class_datetime is not
\* before the current time and time_until.total_minutes is not negative.
C28_AsStated ==
  (val # <<>> /\ val[1].next_class # <<>>) => val[1].total_minutes[1] >= 0

\* C29: the period and break windows leave no gap in the teaching day: the
\* lookup gives -1 or a period in 1..8 at every time from 08:30 to 17:10, both
\* included, and 0 exactly before 08:30 and after 17:10.
C29_NoGap ==
  val # <<>> =>
    LET t == arg[1]
    IN  /\ (T(8, 30) <= t /\ t <= T(17, 10)) => val[1] \in {-1} \cup (1..8)
        /\ (t < T(8, 30) \/ t > T(17, 10)) => val[1] = 0

\* 17:10, the last instant of period 8, is still inside the teaching day
C29_Witness ==
  /\ val # <<>>
  /\ arg[1] = T(17, 10)
  /\ val[1] = 8

\* login() of scraper kind raises on the response r, from a fresh instance
\* with complete credentials and a token on the entry page
LoginRaises(kind, r) == login(kind, NewScraper(kind, "ok"), [token |-> TRUE], r).raised

\* C30 (as stated): the four scrapers classify a login response identically:
\* for every landing URL and body, the login that was run succeeds exactly
\* when the login of each other scraper succeeds on the same response.
C30_AsStated ==
  val # <<>> =>
    \A kind \in Scrapers : LoginRaises(kind, arg[1]) = val[1].out.raised
====
